---- MODULE Spec2Model ----
(***************************************************************************)
(* EmoGo backend (src/main.py, src/models.py): the three document          *)
(* collections, the videos directory, and the request handlers that read   *)
(* and write them.  A handler whose only effect is one call of the         *)
(* document store or one look at the videos directory is one action.  The  *)
(* upload handler is one action per step (name, open, each chunk written,  *)
(* stat, insert): the videos directory is shared with the other worker     *)
(* processes and with the seeding tools, and the handler is suspended in   *)
(* await insert_one after the blob is on disk.                             *)
(*                                                                         *)
(* SpecUpload runs the upload and download handlers, SpecRecords the       *)
(* create, list and get-by-id handlers; Spec runs all of them.             *)
(***************************************************************************)
EXTENDS Integers, Sequences, FiniteSets, TLC

\* ------------------------------------------------------------------ bounds
\* Upload requests that may be in flight or finished in one behaviour.
MaxUploads == 2
\* Documents the store may hold, over all collections.
MaxDocs == 2
\* Longest uploaded payload, in chunks written by copyfileobj.
MaxChunks == 2

\* ------------------------------------------------------- program constants
IntensityGe == 0
IntensityLe == 1
LatitudeGe == -90
LatitudeLe == 90
LongitudeGe == -180
LongitudeLe == 180
DefaultLimit == 100
OidHexLen == 24

\* ------------------------------------------------------------ input values
\* Optional[T]: <<>> is None (the parameter or field is absent), <<v>> is v.
None == <<>>
Some(v) == <<v>>

\* Owner ids a caller filters by: the empty string, and two that differ only
\* in case.  Records are submitted under the last two, uploads under one.
UserIds == {"", "u1", "U1"}
OwnerIds == {"u1", "U1"}
UploadOwnerIds == {"u1"}

\* Numbers are rationals n/d with d > 0, compared exactly.
Rat(n, d) == [n |-> n, d |-> d]
Num(n) == Rat(n, 1)
RatLe(a, b) == a.n * b.d <= b.n * a.d

IntensityInputs == {Rat(-1, 10), Num(IntensityGe), Num(IntensityLe), Rat(11, 10)}

\* <<latitude, longitude>>: both at a bound, or one of them just outside
CoordinateInputs ==
    { <<Num(LatitudeGe), Num(LongitudeGe)>>, <<Num(LatitudeLe), Num(LongitudeLe)>>,
      <<Num(LatitudeGe - 1), Num(LongitudeLe)>>, <<Rat(901, 10), Num(LongitudeGe)>>,
      <<Num(LatitudeGe), Rat(-1801, 10)>>, <<Num(LatitudeLe), Num(LongitudeLe + 1)>> }

\* Client file names, as character sequences.
FileNames ==
    { <<"a", ".", "m", "p", "4">>,
      <<"A", ".", "M", "P", "4">>,
      <<"a", ".", "t", "x", "t">> }

\* ------------------------------------------------------------------- state
VARIABLES
    vlogs,            \* app.mongodb["vlogs"]: set of documents
    sentiments,       \* app.mongodb["sentiments"]
    gps_coordinates,  \* app.mongodb["gps_coordinates"]
    nextOid,          \* number of ObjectIds generated so far
    files,            \* VIDEOS_DIR: file name -> content (sequence of chunks)
    nextUuid,         \* number of uuid4() values drawn so far
    up,               \* the upload requests, by request number
    resp,             \* the last response sent by a handler that is one action
    seed,             \* populate_with_videos.py: where clear_existing_data is
    export            \* the GET /api/export/all request: its place and its lists

vars ==
    <<vlogs, sentiments, gps_coordinates, nextOid, files, nextUuid, up, resp, seed, export>>

\* ------------------------------------------------------ strings and names
ToLower ==
    [c \in {"A", "B", "C", "D", "E", "F", "M", "P", "T", "X", "U"} |->
        CASE c = "A" -> "a" [] c = "B" -> "b" [] c = "C" -> "c"
          [] c = "D" -> "d" [] c = "E" -> "e" [] c = "F" -> "f"
          [] c = "M" -> "m" [] c = "P" -> "p" [] c = "T" -> "t"
          [] c = "X" -> "x" [] c = "U" -> "u"]

\* (variant: the case is left as it is)
LowerUnchanged(s) == s

\* str.lower()
Lower(s) == [i \in 1..Len(s) |-> IF s[i] \in DOMAIN ToLower THEN ToLower[s[i]] ELSE s[i]]

\* str.rfind(c), 1-based; 0 when c does not occur
RFind(s, c) ==
    LET hits == {i \in 1..Len(s) : s[i] = c}
    IN  IF hits = {} THEN 0 ELSE CHOOSE i \in hits : \A j \in hits : j <= i

\* PurePath.name: the final path component
PathName(s) == SubSeq(s, RFind(s, "/") + 1, Len(s))

\* PurePath.suffix: from the last dot of the name, unless the name starts or
\* ends with it
Suffix(s) ==
    LET name == PathName(s)
        i == RFind(name, ".")
    IN  IF 1 < i /\ i < Len(name) THEN SubSeq(name, i, Len(name)) ELSE <<>>

allowed_extensions ==
    { <<".", "m", "p", "4">>, <<".", "a", "v", "i">>, <<".", "m", "o", "v">>,
      <<".", "m", "k", "v">>, <<".", "w", "e", "b", "m">>, <<".", "m", "4", "v">> }

\* str(uuid.uuid4()): the n-th value drawn, a string unlike every other
\* value drawn and unlike every client file name
Uuid4(n) == <<"#", ToString(n)>>

\* (variant: the client's file name is used as the storage name)
ClientFilename(n, filename, file_ext) == filename

\* f"{uuid.uuid4()}{file_ext}"
UniqueFilename(n, filename, file_ext) == Uuid4(n) \o file_ext

\* ---------------------------------------------------------- ObjectId
HexDigits == <<"0", "1", "2", "3", "4", "5", "6", "7", "8", "9",
               "a", "b", "c", "d", "e", "f">>
HexChars == {HexDigits[i] : i \in 1..Len(HexDigits)} \cup {"A", "B", "C", "D", "E", "F"}

\* bson.ObjectId.is_valid for a str: 24 hexadecimal characters
IsValidOid(s) == Len(s) = OidHexLen /\ \A i \in 1..Len(s) : s[i] \in HexChars

\* ObjectId(s) for a valid s; an ObjectId is held as its lower-case hex form
ObjectId(s) == Lower(s)

\* str(oid)
OidStr(oid) == oid

\* The n-th ObjectId the driver generates (n < 256)
NewOid(n) ==
    [i \in 1..OidHexLen |->
        IF i = OidHexLen THEN HexDigits[(n % 16) + 1]
        ELSE IF i = OidHexLen - 1 THEN HexDigits[((n \div 16) % 16) + 1]
        ELSE "0"]

\* ---------------------------------------------------- the document store
\* A collection is the sequence of its documents in insertion order.
Min(a, b) == IF a <= b THEN a ELSE b
Abs(n) == IF n < 0 THEN -n ELSE n

\* A datetime is a number of microseconds.  BSON holds a datetime as whole
\* milliseconds: the driver drops the microseconds below the millisecond.
DatetimeToMillis(t) == t \div 1000
MillisToDatetime(ms) == ms * 1000
BsonDatetime(t) == MillisToDatetime(DatetimeToMillis(t))

\* The document as the store holds it and reads it back
BsonEncode(doc) == [doc EXCEPT !.timestamp = BsonDatetime(@)]

\* (variant: the new document replaces the collection's content)
InsertOneReplacing(coll, doc, n) == <<[_id |-> NewOid(n)] @@ BsonEncode(doc)>>

\* collection.insert_one(doc): the driver adds the generated _id
InsertOne(coll, doc, n) == Append(coll, [_id |-> NewOid(n)] @@ BsonEncode(doc))

\* collection.find(query): query is {} (None) or {"user_id": v} (Some(v))
Matches(doc, query) == query = None \/ doc.user_id = query[1]
Find(coll, query) == SelectSeq(coll, LAMBDA d : Matches(d, query))

\* cursor.limit(n): 0 is no limit, a negative n is abs(n) in a single batch
Limit(docs, n) == IF n = 0 THEN docs ELSE SubSeq(docs, 1, Min(Abs(n), Len(docs)))

\* collection.find_one({"_id": oid}): the document, or None
FindOne(coll, oid) ==
    LET hits == SelectSeq(coll, LAMBDA d : d._id = oid)
    IN  IF hits = <<>> THEN None ELSE Some(hits[1])

\* doc["_id"] = str(doc["_id"])
Stringify(doc) == [doc EXCEPT !._id = OidStr(doc._id)]
StringifyAll(docs) == [i \in 1..Len(docs) |-> Stringify(docs[i])]

\* ---------------------------------------------------------- validation
\* pydantic: a required field is present and a bounded number is in range
InRange(v, ge, le) == v # None /\ RatLe(Num(ge), v[1]) /\ RatLe(v[1], Num(le))

\* (variant: intensity has no upper bound)
SentimentModelNoLe(p) ==
    /\ p.user_id # None
    /\ p.emotion # None
    /\ p.intensity # None
    /\ RatLe(Num(IntensityGe), p.intensity[1])

SentimentModelValid(p) ==
    /\ p.user_id # None
    /\ p.emotion # None
    /\ InRange(p.intensity, IntensityGe, IntensityLe)

\* (variant: the bounds are exclusive, gt/lt for ge/le)
GPSCoordinateModelExclusive(p) ==
    /\ p.user_id # None
    /\ p.latitude # None /\ p.longitude # None
    /\ ~RatLe(p.latitude[1], Num(LatitudeGe)) /\ ~RatLe(Num(LatitudeLe), p.latitude[1])
    /\ ~RatLe(p.longitude[1], Num(LongitudeGe)) /\ ~RatLe(Num(LongitudeLe), p.longitude[1])

GPSCoordinateModelValid(p) ==
    /\ p.user_id # None
    /\ InRange(p.latitude, LatitudeGe, LatitudeLe)
    /\ InRange(p.longitude, LongitudeGe, LongitudeLe)

VlogModelValid(p) == p.user_id # None /\ p.video_url # None

\* timestamp: datetime = Field(default_factory=datetime.utcnow); now is the
\* clock when the model is built
DefaultNow(timestamp, now) == IF timestamp = None THEN now ELSE timestamp[1]

\* model_dump(): the validated fields as a dict; an optional field that was
\* not sent is None
SentimentDump(p, now) ==
    [user_id |-> p.user_id[1], emotion |-> p.emotion[1], intensity |-> p.intensity[1],
     note |-> p.note, timestamp |-> DefaultNow(p.timestamp, now), context |-> p.context]
GPSDump(p, now) ==
    [user_id |-> p.user_id[1], latitude |-> p.latitude[1], longitude |-> p.longitude[1],
     altitude |-> p.altitude, accuracy |-> p.accuracy,
     timestamp |-> DefaultNow(p.timestamp, now), location_name |-> p.location_name]
VlogDump(p, now) ==
    [user_id |-> p.user_id[1], video_url |-> p.video_url[1], title |-> p.title,
     description |-> p.description, timestamp |-> DefaultNow(p.timestamp, now),
     duration |-> p.duration]

\* ------------------------------------------------------------- responses
Response(op, status, arg, body) == [op |-> op, status |-> status, arg |-> arg, body |-> body]

\* query = {"user_id": user_id} if user_id else {}
ListQuery(user_id) == IF user_id # None /\ user_id[1] # "" THEN Some(user_id[1]) ELSE None

\* get_vlogs / get_sentiments / get_gps_coordinates: the documents returned
ListBody(coll, user_id, limit) == StringifyAll(Limit(Find(coll, ListQuery(user_id)), limit))

\* The try block of a get-by-id handler: what it returns or raises
GetByIdTry(coll, id) ==
    IF ~IsValidOid(id)
    THEN [raised |-> TRUE, exc |-> "InvalidId", status |-> 0, body |-> <<>>]
    ELSE LET doc == FindOne(coll, ObjectId(id))
         IN  IF doc # None
             THEN [raised |-> FALSE, exc |-> "", status |-> 200,
                   body |-> <<Stringify(doc[1])>>]
             ELSE [raised |-> TRUE, exc |-> "HTTPException", status |-> 404,
                   body |-> <<>>]

\* except Exception as e: bson's InvalidId and starlette's HTTPException are
\* both subclasses of Exception
CaughtByExceptException(exc) == exc \in {"InvalidId", "HTTPException"}

\* get_vlog / get_sentiment / get_gps_coordinate: status and body
GetById(coll, id) ==
    LET t == GetByIdTry(coll, id)
    IN  IF t.raised /\ CaughtByExceptException(t.exc)
        THEN [status |-> 400, body |-> <<>>]
        ELSE [status |-> t.status, body |-> t.body]

\* ------------------------------------------------------------ input sets
Opt(S) == {None} \cup {Some(v) : v \in S}
\* A payload of each kind with the optional fields not sent
SentimentPayload(user_id, intensity) ==
    [timestamp |-> None, user_id |-> user_id, emotion |-> Some("happy"),
     intensity |-> intensity, note |-> None, context |-> None]
GPSPayload(user_id, latitude, longitude) ==
    [timestamp |-> None, user_id |-> user_id, latitude |-> latitude,
     longitude |-> longitude, altitude |-> None, accuracy |-> None,
     location_name |-> None]
VlogPayload(user_id, video_url) ==
    [timestamp |-> None, user_id |-> user_id, video_url |-> video_url, title |-> None,
     description |-> None, duration |-> None]

SentimentPayloads ==
    {SentimentPayload(u, i) : u \in Opt(OwnerIds), i \in Opt(IntensityInputs)}
GPSPayloads ==
    {GPSPayload(u, Some(c[1]), Some(c[2])) : u \in Opt(OwnerIds), c \in CoordinateInputs}
    \cup {GPSPayload(Some(u), None, None) : u \in OwnerIds}
\* A URL is held as <<directory prefix, file name>>.
VideoUrls == {<<"https://example.com/", <<"v", ".", "m", "p", "4">>>>}
VlogPayloads == {VlogPayload(u, v) : u \in Opt(OwnerIds), v \in Opt(VideoUrls)}

\* Payloads with the optional fields sent or not, and a timestamp not sent,
\* sent on a whole millisecond, or sent with microseconds
ClientTimestamps == {None, Some(MillisToDatetime(1)), Some(MillisToDatetime(1) + 500)}
FullVlogPayloads ==
    {[timestamp |-> t, user_id |-> Some("u1"), video_url |-> Some(v), title |-> o,
      description |-> o, duration |-> IF o = None THEN None ELSE Some(Rat(3, 2))] :
        v \in VideoUrls, o \in Opt({"text"}), t \in ClientTimestamps}
    \cup {[timestamp |-> None, user_id |-> Some("u1"), video_url |-> Some(v),
           title |-> None, description |-> None, duration |-> Some(d)] :
              v \in VideoUrls, d \in {Num(0), Num(-1)}}
FullSentimentPayloads ==
    {[timestamp |-> t, user_id |-> Some("u1"), emotion |-> Some("happy"),
      intensity |-> Some(Rat(1, 2)), note |-> o, context |-> o] :
        o \in Opt({"text"}), t \in ClientTimestamps}
FullGPSPayloads ==
    {[timestamp |-> t, user_id |-> Some("u1"), latitude |-> Some(Rat(251, 10)),
      longitude |-> Some(Rat(1215, 10)),
      altitude |-> IF o = None THEN None ELSE Some(Num(10)),
      accuracy |-> IF o = None THEN None ELSE Some(Rat(1, 2)),
      location_name |-> o] :
        o \in Opt({"text"}), t \in ClientTimestamps}

\* Readings of datetime.utcnow(), in microseconds: one on a whole
\* millisecond, one not
ClockValues == {MillisToDatetime(2), MillisToDatetime(2) + 750}
RecordClock == {MillisToDatetime(2) + 750}
Limits == {-1, 0, 1, 2, DefaultLimit}

\* Ids a caller may ask for: those of stored documents, one never assigned,
\* and two that are not ObjectId syntax.
UnassignedId == [i \in 1..OidHexLen |-> "f"]
NotAnId == <<"n", "o", "t", "-", "a", "n", "-", "i", "d">>
NotHexId == [i \in 1..OidHexLen |-> "g"]
IdInputs(coll) ==
    {OidStr(coll[i]._id) : i \in 1..Len(coll)} \cup {UnassignedId, NotAnId, NotHexId}

\* ------------------------------------------------- the record handlers
RecordFrame == UNCHANGED <<files, nextUuid, up, seed, export>>

\* POST /api/sentiments
CreateSentiment(p, now) ==
    /\ IF SentimentModelValid(p)
       THEN /\ nextOid < MaxDocs
            /\ sentiments' = InsertOne(sentiments, SentimentDump(p, now), nextOid + 1)
            /\ nextOid' = nextOid + 1
            /\ resp' = Response("create_sentiment", 201, p, <<OidStr(NewOid(nextOid + 1))>>)
       ELSE /\ UNCHANGED <<sentiments, nextOid>>
            /\ resp' = Response("create_sentiment", 422, p, <<>>)
    /\ UNCHANGED <<vlogs, gps_coordinates>>
    /\ RecordFrame

\* POST /api/gps
CreateGpsCoordinate(p, now) ==
    /\ IF GPSCoordinateModelValid(p)
       THEN /\ nextOid < MaxDocs
            /\ gps_coordinates' = InsertOne(gps_coordinates, GPSDump(p, now), nextOid + 1)
            /\ nextOid' = nextOid + 1
            /\ resp' = Response("create_gps_coordinate", 201, p, <<OidStr(NewOid(nextOid + 1))>>)
       ELSE /\ UNCHANGED <<gps_coordinates, nextOid>>
            /\ resp' = Response("create_gps_coordinate", 422, p, <<>>)
    /\ UNCHANGED <<vlogs, sentiments>>
    /\ RecordFrame

\* POST /api/vlogs
CreateVlog(p, now) ==
    /\ IF VlogModelValid(p)
       THEN /\ nextOid < MaxDocs
            /\ vlogs' = InsertOne(vlogs, VlogDump(p, now), nextOid + 1)
            /\ nextOid' = nextOid + 1
            /\ resp' = Response("create_vlog", 201, p, <<OidStr(NewOid(nextOid + 1))>>)
       ELSE /\ UNCHANGED <<vlogs, nextOid>>
            /\ resp' = Response("create_vlog", 422, p, <<>>)
    /\ UNCHANGED <<sentiments, gps_coordinates>>
    /\ RecordFrame

ReadFrame ==
    UNCHANGED <<vlogs, sentiments, gps_coordinates, nextOid, files, nextUuid, up, seed,
                export>>

ListArg(user_id, limit) == [user_id |-> user_id, limit |-> limit]

\* GET /api/vlogs
GetVlogs(user_id, limit) ==
    /\ resp' = Response("get_vlogs", 200, ListArg(user_id, limit),
                        ListBody(vlogs, user_id, limit))
    /\ ReadFrame

\* (variant: the handler reads the vlogs collection)
GetSentimentsFromVlogs(user_id, limit) ==
    /\ resp' = Response("get_sentiments", 200, ListArg(user_id, limit),
                        ListBody(vlogs, user_id, limit))
    /\ ReadFrame

\* GET /api/sentiments
GetSentiments(user_id, limit) ==
    /\ resp' = Response("get_sentiments", 200, ListArg(user_id, limit),
                        ListBody(sentiments, user_id, limit))
    /\ ReadFrame

\* GET /api/gps
GetGpsCoordinates(user_id, limit) ==
    /\ resp' = Response("get_gps_coordinates", 200, ListArg(user_id, limit),
                        ListBody(gps_coordinates, user_id, limit))
    /\ ReadFrame

\* GET /api/vlogs/{vlog_id}
GetVlog(vlog_id) ==
    /\ resp' = LET r == GetById(vlogs, vlog_id)
               IN  Response("get_vlog", r.status, vlog_id, r.body)
    /\ ReadFrame

\* GET /api/sentiments/{sentiment_id}
GetSentiment(sentiment_id) ==
    /\ resp' = LET r == GetById(sentiments, sentiment_id)
               IN  Response("get_sentiment", r.status, sentiment_id, r.body)
    /\ ReadFrame

\* GET /api/gps/{gps_id}
GetGpsCoordinate(gps_id) ==
    /\ resp' = LET r == GetById(gps_coordinates, gps_id)
               IN  Response("get_gps_coordinate", r.status, gps_id, r.body)
    /\ ReadFrame

\* --------------------------------------------------- the videos directory
\* A file's content is the sequence of chunks written to it; a chunk carries
\* the number of the request whose payload it belongs to (0: a hole).
Payload(r, total) == [i \in 1..total |-> r]
PayloadSizes == {1, MaxChunks}

\* buffer.write(chunk) at file offset pos - 1
WriteAt(content, pos, c) ==
    IF pos <= Len(content)
    THEN [content EXCEPT ![pos] = c]
    ELSE content \o [i \in 1..(pos - Len(content) - 1) |-> 0] \o <<c>>

Exists(name) == name \in DOMAIN files

\* ------------------------------------- POST /api/vlogs/upload, step by step
Reqs == 1..MaxUploads

IdleReq ==
    [pc |-> "idle", user_id |-> None, filename |-> <<>>, total |-> 0,
     name |-> <<>>, off |-> 0, file_size |-> 0, timestamp |-> 0, status |-> 0,
     outcome |-> "", body |-> <<>>]

Finish(req, status, outcome) ==
    [req EXCEPT !.pc = "done", !.status = status, !.outcome = outcome]

UploadFrame == UNCHANGED <<sentiments, gps_coordinates, resp, seed, export>>

\* (variant: user_id is an optional form field, checked nowhere)
UploadRequestOwnerOptional(r, user_id, filename, total) ==
    /\ up[r].pc = "idle"
    /\ \A q \in Reqs : q < r => up[q].pc # "idle"
    /\ LET req == [up[r] EXCEPT !.user_id = user_id, !.filename = filename,
                                !.total = total]
           file_ext == Lower(Suffix(filename))
       IN  IF file_ext \notin allowed_extensions
           THEN /\ up' = [up EXCEPT ![r] = Finish(req, 400, "UnsupportedMediaType")]
                /\ UNCHANGED nextUuid
           ELSE /\ up' = [up EXCEPT ![r] =
                            [req EXCEPT !.pc = "open",
                                        !.name = UniqueFilename(nextUuid + 1, filename, file_ext)]]
                /\ nextUuid' = nextUuid + 1
    /\ UNCHANGED <<vlogs, nextOid, files>>
    /\ UploadFrame

\* The request arrives: form validation, the extension check and the name.
\* Requests are numbered in their order of arrival.
UploadRequest(r, user_id, filename, total) ==
    /\ up[r].pc = "idle"
    /\ \A q \in Reqs : q < r => up[q].pc # "idle"
    /\ LET req == [up[r] EXCEPT !.user_id = user_id, !.filename = filename,
                                !.total = total]
           file_ext == Lower(Suffix(filename))
       IN  IF user_id = None
           THEN /\ up' = [up EXCEPT ![r] = Finish(req, 422, "ValidationError")]
                /\ UNCHANGED nextUuid
           ELSE IF file_ext \notin allowed_extensions
           THEN /\ up' = [up EXCEPT ![r] = Finish(req, 400, "UnsupportedMediaType")]
                /\ UNCHANGED nextUuid
           ELSE /\ up' = [up EXCEPT ![r] =
                            [req EXCEPT !.pc = "open",
                                        !.name = UniqueFilename(nextUuid + 1, filename, file_ext)]]
                /\ nextUuid' = nextUuid + 1
    /\ UNCHANGED <<vlogs, nextOid, files>>
    /\ UploadFrame

\* file_path.open("wb"): the file is created, or truncated if it exists
UploadOpen(r) ==
    /\ up[r].pc = "open"
    /\ files' = (up[r].name :> <<>>) @@ files
    /\ up' = [up EXCEPT ![r].pc = "copy", ![r].off = 0]
    /\ UNCHANGED <<vlogs, nextOid, nextUuid>>
    /\ UploadFrame

\* file_path.open("wb") raises: caught by except Exception
UploadOpenFail(r) ==
    /\ up[r].pc = "open"
    /\ up' = [up EXCEPT ![r] = Finish(up[r], 500, "StorageError")]
    /\ UNCHANGED <<vlogs, nextOid, files, nextUuid>>
    /\ UploadFrame

\* shutil.copyfileobj: one chunk read from the upload and written
UploadCopyChunk(r) ==
    /\ up[r].pc = "copy"
    /\ up[r].off < up[r].total
    /\ files' = IF Exists(up[r].name)
                THEN [files EXCEPT ![up[r].name] = WriteAt(@, up[r].off + 1, r)]
                ELSE files
    /\ up' = [up EXCEPT ![r].off = @ + 1]
    /\ UNCHANGED <<vlogs, nextOid, nextUuid>>
    /\ UploadFrame

\* (variant: the except clause swallows the error and the handler goes on)
UploadCopyFailSwallowed(r) ==
    /\ up[r].pc = "copy"
    /\ up' = [up EXCEPT ![r].pc = "insert", ![r].outcome = "StorageError",
                        ![r].file_size = IF Exists(up[r].name)
                                         THEN Len(files[up[r].name]) ELSE 0]
    /\ UNCHANGED <<vlogs, nextOid, files, nextUuid>>
    /\ UploadFrame

\* A read or write of copyfileobj raises: the with block closes the file and
\* the handler answers 500
UploadCopyFail(r) ==
    /\ up[r].pc = "copy"
    /\ up' = [up EXCEPT ![r] = Finish(up[r], 500, "StorageError")]
    /\ UNCHANGED <<vlogs, nextOid, files, nextUuid>>
    /\ UploadFrame

\* (variant: the handler goes on before the whole payload is written)
UploadStatEarly(r, now) ==
    /\ up[r].pc = "copy"
    /\ up' = IF Exists(up[r].name)
             THEN [up EXCEPT ![r].pc = "insert", ![r].file_size = Len(files[up[r].name]),
                             ![r].timestamp = now]
             ELSE [up EXCEPT ![r] = Finish(up[r], 500, "FileNotFoundError")]
    /\ UNCHANGED <<vlogs, nextOid, files, nextUuid>>
    /\ UploadFrame

\* End of the payload: the file is closed, file_path.stat() is taken and
\* vlog_dict is built with the clock's reading
UploadStat(r, now) ==
    /\ up[r].pc = "copy"
    /\ up[r].off = up[r].total
    /\ up' = IF Exists(up[r].name)
             THEN [up EXCEPT ![r].pc = "insert", ![r].file_size = Len(files[up[r].name]),
                             ![r].timestamp = now]
             ELSE [up EXCEPT ![r] = Finish(up[r], 500, "FileNotFoundError")]
    /\ UNCHANGED <<vlogs, nextOid, files, nextUuid>>
    /\ UploadFrame

\* (variant: download_url is built from the client's file name)
UploadVlogDictClientName(req) ==
    [user_id |-> req.user_id[1],
     video_url |-> <<"/uploads/videos/", req.name>>,
     download_url |-> <<"/api/vlogs/download/", req.filename>>,
     original_filename |-> req.filename,
     file_size |-> req.file_size,
     title |-> None,
     description |-> None,
     timestamp |-> req.timestamp]

\* vlog_dict of the upload handler
UploadVlogDict(req) ==
    [user_id |-> req.user_id[1],
     video_url |-> <<"/uploads/videos/", req.name>>,
     download_url |-> <<"/api/vlogs/download/", req.name>>,
     original_filename |-> req.filename,
     file_size |-> req.file_size,
     title |-> None,
     description |-> None,
     timestamp |-> req.timestamp]

\* The body of the 201 response
UploadResponseBody(req, oid) ==
    [id |-> OidStr(oid),
     video_url |-> <<"/uploads/videos/", req.name>>,
     download_url |-> <<"/api/vlogs/download/", req.name>>,
     file_size |-> req.file_size]

\* await insert_one(vlog_dict) succeeds: 201
UploadInsert(r) ==
    /\ up[r].pc = "insert"
    /\ nextOid < MaxDocs
    /\ vlogs' = InsertOne(vlogs, UploadVlogDict(up[r]), nextOid + 1)
    /\ nextOid' = nextOid + 1
    /\ up' = [up EXCEPT ![r] =
                [Finish(up[r], 201, "Created") EXCEPT
                    !.body = <<UploadResponseBody(up[r], NewOid(nextOid + 1))>>]]
    /\ UNCHANGED <<files, nextUuid>>
    /\ UploadFrame

\* await insert_one(vlog_dict) raises: the exception leaves the handler
UploadInsertFail(r) ==
    /\ up[r].pc = "insert"
    /\ up' = [up EXCEPT ![r] = Finish(up[r], 500, "StoreError")]
    /\ UNCHANGED <<vlogs, nextOid, files, nextUuid>>
    /\ UploadFrame

\* (variant: a missing file is answered with an empty stream)
DownloadResultEmptyStream(filename) ==
    IF ~Exists(filename)
    THEN [status |-> 200, body |-> <<>>]
    ELSE [status |-> 200, body |-> files[filename]]

\* GET /api/vlogs/download/{filename}
DownloadResult(filename) ==
    IF ~Exists(filename)
    THEN [status |-> 404, body |-> <<>>]
    ELSE [status |-> 200, body |-> files[filename]]

NameInputs ==
    DOMAIN files \cup {up[r].name : r \in {q \in Reqs : up[q].pc # "idle"}}
        \cup {<<"x", ".", "m", "p", "4">>}

DownloadVlogVideo(filename) ==
    /\ resp' = LET d == DownloadResult(filename)
               IN  Response("download_vlog_video", d.status, filename, d.body)
    /\ ReadFrame

\* ------------------------- populate_with_videos.py: clear_existing_data
\* The tool is another process: it works on the same collections and the same
\* videos directory while the server answers requests.
IdleSeed == [pc |-> "idle", video_files |-> {}]

SeedFrame == UNCHANGED <<nextOid, nextUuid, up, resp, export>>

\* Path.glob("*.mp4"): the names that end with .mp4
GlobMp4(name) ==
    Len(name) >= 4 /\ SubSeq(name, Len(name) - 3, Len(name)) = <<".", "m", "p", "4">>

\* Path.unlink()
Unlink(name) == [n \in DOMAIN files \ {name} |-> files[n]]

\* await db["vlogs"].delete_many({})
ClearVlogs ==
    /\ seed.pc = "idle"
    /\ vlogs' = <<>>
    /\ seed' = [seed EXCEPT !.pc = "sentiments"]
    /\ UNCHANGED <<sentiments, gps_coordinates, files>>
    /\ SeedFrame

\* await db["sentiments"].delete_many({})
ClearSentiments ==
    /\ seed.pc = "sentiments"
    /\ sentiments' = <<>>
    /\ seed' = [seed EXCEPT !.pc = "gps_coordinates"]
    /\ UNCHANGED <<vlogs, gps_coordinates, files>>
    /\ SeedFrame

\* await db["gps_coordinates"].delete_many({})
ClearGpsCoordinates ==
    /\ seed.pc = "gps_coordinates"
    /\ gps_coordinates' = <<>>
    /\ seed' = [seed EXCEPT !.pc = "glob"]
    /\ UNCHANGED <<vlogs, sentiments, files>>
    /\ SeedFrame

\* video_files = list(VIDEOS_DIR.glob("*.mp4"))
ClearGlob ==
    /\ seed.pc = "glob"
    /\ seed' = [pc |-> "unlink", video_files |-> {n \in DOMAIN files : GlobMp4(n)}]
    /\ UNCHANGED <<vlogs, sentiments, gps_coordinates, files>>
    /\ SeedFrame

\* video_file.unlink(), for the files of the list in the directory's order
ClearUnlink(name) ==
    /\ seed.pc = "unlink"
    /\ name \in seed.video_files
    /\ IF Exists(name)
       THEN /\ files' = Unlink(name)
            /\ seed' = [seed EXCEPT !.video_files = @ \ {name}]
       ELSE /\ files' = files
            /\ seed' = [seed EXCEPT !.pc = "failed"]
    /\ UNCHANGED <<vlogs, sentiments, gps_coordinates>>
    /\ SeedFrame

\* The loop is over: clear_existing_data returns
ClearReturn ==
    /\ seed.pc = "unlink"
    /\ seed.video_files = {}
    /\ seed' = [seed EXCEPT !.pc = "done"]
    /\ UNCHANGED <<vlogs, sentiments, gps_coordinates, files>>
    /\ SeedFrame

\* ------------------------------------------------- GET /api/export/all
\* The handler awaits three cursors in turn; other requests are served
\* between them. vlogs, sentiments and gps_coords are its local lists.
IdleExport ==
    [pc |-> "idle", vlogs |-> <<>>, sentiments |-> <<>>, gps_coords |-> <<>>,
     body |-> <<>>]

ExportFrame ==
    UNCHANGED <<vlogs, sentiments, gps_coordinates, nextOid, files, nextUuid, up, resp,
                seed>>

\* The request arrives: the three lists are empty
ExportRequest ==
    /\ export.pc = "idle"
    /\ export' = [export EXCEPT !.pc = "vlogs"]
    /\ ExportFrame

\* async for vlog in app.mongodb["vlogs"].find(): no query and no limit
ExportVlogs ==
    /\ export.pc = "vlogs"
    /\ export' = [export EXCEPT !.pc = "sentiments",
                                !.vlogs = StringifyAll(Find(vlogs, None))]
    /\ ExportFrame

\* async for sentiment in app.mongodb["sentiments"].find()
ExportSentiments ==
    /\ export.pc = "sentiments"
    /\ export' = [export EXCEPT !.pc = "gps_coordinates",
                                !.sentiments = StringifyAll(Find(sentiments, None))]
    /\ ExportFrame

\* async for gps in app.mongodb["gps_coordinates"].find()
ExportGpsCoords ==
    /\ export.pc = "gps_coordinates"
    /\ export' = [export EXCEPT !.pc = "return",
                                !.gps_coords = StringifyAll(Find(gps_coordinates, None))]
    /\ ExportFrame

\* The returned dict; export_date is the clock's reading (isoformat() keeps
\* the microseconds)
ExportBody(e, now) ==
    [export_date |-> now,
     total_vlogs |-> Len(e.vlogs),
     total_sentiments |-> Len(e.sentiments),
     total_gps_coordinates |-> Len(e.gps_coords),
     data |-> [vlogs |-> e.vlogs, sentiments |-> e.sentiments,
               gps_coordinates |-> e.gps_coords]]

\* (variant: the totals are counted in the collections when the handler
\* returns)
ExportReturnCounting(now) ==
    /\ export.pc = "return"
    /\ export' = [export EXCEPT !.pc = "done",
                    !.body = <<[ExportBody(export, now) EXCEPT
                                  !.total_vlogs = Len(vlogs),
                                  !.total_sentiments = Len(sentiments),
                                  !.total_gps_coordinates = Len(gps_coordinates)]>>]
    /\ ExportFrame

ExportReturn(now) ==
    /\ export.pc = "return"
    /\ export' = [export EXCEPT !.pc = "done", !.body = <<ExportBody(export, now)>>]
    /\ ExportFrame

\* ------------------------------------------------------------ GET /health
\* await app.mongodb.command("ping") returns or raises
Pings == {"ok", "raises"}

\* (variant: the ping is not inside a try block)
HealthCheckPropagating(ping) ==
    /\ resp' = IF ping = "ok"
               THEN Response("health_check", 200, ping,
                             <<[status |-> "healthy", database |-> "connected"]>>)
               ELSE Response("health_check", 500, ping, <<>>)
    /\ ReadFrame

\* try: ping, return healthy; except Exception: JSONResponse(503, unhealthy)
HealthCheck(ping) ==
    /\ resp' = IF ping = "ok"
               THEN Response("health_check", 200, ping,
                             <<[status |-> "healthy", database |-> "connected"]>>)
               ELSE Response("health_check", 503, ping,
                             <<[status |-> "unhealthy", database |-> "disconnected"]>>)
    /\ ReadFrame

\* ------------------------------------------------------ the specification
NoResponse == Response("", 0, <<>>, <<>>)

Init ==
    /\ vlogs = <<>>
    /\ sentiments = <<>>
    /\ gps_coordinates = <<>>
    /\ nextOid = 0
    /\ files = <<>>
    /\ nextUuid = 0
    /\ up = [r \in Reqs |-> IdleReq]
    /\ resp = NoResponse
    /\ seed = IdleSeed
    /\ export = IdleExport

Upload ==
    \/ \E r \in Reqs, u \in Opt(UploadOwnerIds), f \in FileNames, t \in PayloadSizes :
           UploadRequest(r, u, f, t)
    \/ \E r \in Reqs : UploadOpen(r)
    \/ \E r \in Reqs : UploadOpenFail(r)
    \/ \E r \in Reqs : UploadCopyChunk(r)
    \/ \E r \in Reqs : UploadCopyFail(r)
    \/ \E r \in Reqs, now \in RecordClock : UploadStat(r, now)
    \/ \E r \in Reqs : UploadInsert(r)
    \/ \E r \in Reqs : UploadInsertFail(r)
    \/ \E f \in NameInputs : DownloadVlogVideo(f)

Records ==
    \/ \E p \in VlogPayloads, now \in RecordClock : CreateVlog(p, now)
    \/ \E p \in SentimentPayloads, now \in RecordClock : CreateSentiment(p, now)
    \/ \E p \in GPSPayloads, now \in RecordClock : CreateGpsCoordinate(p, now)
    \/ \E u \in Opt(UserIds), n \in Limits : GetVlogs(u, n)
    \/ \E u \in Opt(UserIds), n \in Limits : GetSentiments(u, n)
    \/ \E u \in Opt(UserIds), n \in Limits : GetGpsCoordinates(u, n)
    \/ \E id \in IdInputs(vlogs) : GetVlog(id)
    \/ \E id \in IdInputs(sentiments) : GetSentiment(id)
    \/ \E id \in IdInputs(gps_coordinates) : GetGpsCoordinate(id)

\* Create and get by id, with every field of the models
RoundTrip ==
    \/ \E p \in FullVlogPayloads, now \in ClockValues : CreateVlog(p, now)
    \/ \E p \in FullSentimentPayloads, now \in ClockValues : CreateSentiment(p, now)
    \/ \E p \in FullGPSPayloads, now \in ClockValues : CreateGpsCoordinate(p, now)
    \/ \E id \in IdInputs(vlogs) : GetVlog(id)
    \/ \E id \in IdInputs(sentiments) : GetSentiment(id)
    \/ \E id \in IdInputs(gps_coordinates) : GetGpsCoordinate(id)

\* The requests that write, and the reads of the three collections, each
\* with one well-formed input; a get by id is asked, of each collection, with
\* the id that was assigned last
LastIds ==
    {OidStr(NewOid(n)) : n \in {nextOid} \ {0}}
Api ==
    \/ \E r \in Reqs : UploadRequest(r, Some("u1"), <<"a", ".", "m", "p", "4">>, MaxChunks)
    \/ \E r \in Reqs : UploadOpen(r)
    \/ \E r \in Reqs : UploadOpenFail(r)
    \/ \E r \in Reqs : UploadCopyChunk(r)
    \/ \E r \in Reqs : UploadCopyFail(r)
    \/ \E r \in Reqs, now \in RecordClock : UploadStat(r, now)
    \/ \E r \in Reqs : UploadInsert(r)
    \/ \E r \in Reqs : UploadInsertFail(r)
    \/ \E v \in VideoUrls, now \in RecordClock :
           CreateVlog(VlogPayload(Some("u1"), Some(v)), now)
    \/ \E now \in RecordClock :
           CreateSentiment(SentimentPayload(Some("u1"), Some(Num(IntensityLe))), now)
    \/ \E now \in RecordClock :
           CreateGpsCoordinate(GPSPayload(Some("u1"), Some(Num(LatitudeLe)),
                                          Some(Num(LongitudeLe))), now)
    \/ GetVlogs(None, DefaultLimit)
    \/ GetSentiments(None, DefaultLimit)
    \/ GetGpsCoordinates(None, DefaultLimit)
    \/ \E id \in LastIds : GetVlog(id)
    \/ \E id \in LastIds : GetSentiment(id)
    \/ \E id \in LastIds : GetGpsCoordinate(id)

Clear ==
    \/ ClearVlogs
    \/ ClearSentiments
    \/ ClearGpsCoordinates
    \/ ClearGlob
    \/ \E n \in seed.video_files : ClearUnlink(n)
    \/ ClearReturn

\* Uploads and creates first, then the seeding tool on its own: the tool
\* starts when no request is in progress and no request arrives afterwards
Quiet == \A r \in Reqs : up[r].pc \in {"idle", "done"}
StoredNames == {<<"a", ".", "m", "p", "4">>, <<"a", ".", "m", "o", "v">>}
ClearAlone ==
    \/ /\ seed.pc = "idle"
       /\ \E r \in Reqs, f \in StoredNames : UploadRequest(r, Some("u1"), f, 1)
    \/ seed.pc = "idle" /\ \E r \in Reqs : UploadOpen(r)
    \/ seed.pc = "idle" /\ \E r \in Reqs : UploadOpenFail(r)
    \/ seed.pc = "idle" /\ \E r \in Reqs : UploadCopyChunk(r)
    \/ seed.pc = "idle" /\ \E r \in Reqs : UploadCopyFail(r)
    \/ seed.pc = "idle" /\ \E r \in Reqs, now \in RecordClock : UploadStat(r, now)
    \/ seed.pc = "idle" /\ \E r \in Reqs : UploadInsert(r)
    \/ seed.pc = "idle" /\ \E r \in Reqs : UploadInsertFail(r)
    \/ /\ seed.pc = "idle"
       /\ \E now \in RecordClock :
              CreateSentiment(SentimentPayload(Some("u1"), Some(Num(IntensityLe))), now)
    \/ /\ seed.pc = "idle"
       /\ \E now \in RecordClock :
              CreateGpsCoordinate(GPSPayload(Some("u1"), Some(Num(LatitudeLe)),
                                             Some(Num(LongitudeLe))), now)
    \/ Quiet /\ ClearVlogs
    \/ Quiet /\ ClearSentiments
    \/ Quiet /\ ClearGpsCoordinates
    \/ Quiet /\ ClearGlob
    \/ Quiet /\ \E n \in seed.video_files : ClearUnlink(n)
    \/ Quiet /\ ClearReturn

\* The export while vlogs, sentiments and coordinates are created
Export ==
    \/ ExportRequest
    \/ ExportVlogs
    \/ ExportSentiments
    \/ ExportGpsCoords
    \/ \E now \in RecordClock : ExportReturn(now)

Creates ==
    \/ \E v \in VideoUrls, now \in RecordClock :
           CreateVlog(VlogPayload(Some("u1"), Some(v)), now)
    \/ \E now \in RecordClock :
           CreateSentiment(SentimentPayload(Some("u1"), Some(Num(IntensityLe))), now)
    \/ \E now \in RecordClock :
           CreateGpsCoordinate(GPSPayload(Some("u1"), Some(Num(LatitudeLe)),
                                          Some(Num(LongitudeLe))), now)

\* The health check while blobs and documents are being stored
Health == \E ping \in Pings : HealthCheck(ping)

UploadOne ==
    \/ \E r \in Reqs : UploadRequest(r, Some("u1"), <<"a", ".", "m", "p", "4">>, MaxChunks)
    \/ \E r \in Reqs : UploadOpen(r)
    \/ \E r \in Reqs : UploadOpenFail(r)
    \/ \E r \in Reqs : UploadCopyChunk(r)
    \/ \E r \in Reqs : UploadCopyFail(r)
    \/ \E r \in Reqs, now \in RecordClock : UploadStat(r, now)
    \/ \E r \in Reqs : UploadInsert(r)
    \/ \E r \in Reqs : UploadInsertFail(r)

Next == Upload \/ Records \/ Clear \/ Export \/ Health

Spec == Init /\ [][Next]_vars

SpecUpload == Init /\ [][Upload]_vars
SpecRecords == Init /\ [][Records]_vars
SpecHealth == Init /\ [][Health \/ UploadOne \/ Creates]_vars
SpecExport == Init /\ [][Export \/ Creates]_vars
SpecClear == Init /\ [][ClearAlone]_vars
SpecApi == Init /\ [][Api]_vars
SpecRoundTrip == Init /\ [][RoundTrip]_vars
\* The uploads and downloads while the seeding tool clears the data
SpecSeed == Init /\ [][Upload \/ Clear]_vars

\* ------------------------------------------------------------ the claims
\* The vlog documents that reference the blob stored under name
DocsOf(name) ==
    {i \in 1..Len(vlogs) :
        /\ "download_url" \in DOMAIN vlogs[i]
        /\ vlogs[i].download_url[2] = name}

Done(r) == up[r].pc = "done"
NameAllocated(r) == up[r].name # <<>>

\* C1: once an upload whose blob write failed has ended, no file exists under
\* its allocated name and a download of that name answers 404.
C1_PartialFileRemoved ==
    \A r \in Reqs :
        Done(r) /\ up[r].outcome = "StorageError" =>
            /\ ~Exists(up[r].name)
            /\ DownloadResult(up[r].name).status = 404

\* C2: once an upload whose document insert failed has ended, the blob it
\* wrote is gone, so a failed upload leaves no blob without a document.
C2_BlobDeletedWhenInsertFails ==
    \A r \in Reqs :
        Done(r) /\ up[r].outcome = "StoreError" =>
            (Exists(up[r].name) => DocsOf(up[r].name) # {})

\* C3: a get-by-id answers 400 exactly for an id that is not ObjectId syntax
\* and 404 for a well-formed id that matches no document.
GetByIdOps == {"get_vlog", "get_sentiment", "get_gps_coordinate"}
CollectionOf(op) ==
    CASE op \in {"get_vlog", "get_vlogs"} -> vlogs
      [] op \in {"get_sentiment", "get_sentiments"} -> sentiments
      [] op \in {"get_gps_coordinate", "get_gps_coordinates"} -> gps_coordinates
C3_InvalidIdDistinctFromNotFound ==
    resp.op \in GetByIdOps =>
        LET coll == CollectionOf(resp.op)
            wellFormed == Len(resp.arg) = OidHexLen
                            /\ \A i \in 1..Len(resp.arg) : resp.arg[i] \in HexChars
            present == \E i \in 1..Len(coll) : coll[i]._id = resp.arg
        IN  /\ ~wellFormed => resp.status = 400
            /\ wellFormed /\ ~present => resp.status = 404

\* C4: an upload whose blob write failed has stopped with status 500 and has
\* put no document in the vlogs collection.
C4_WriteFailureStopsBeforeStore ==
    \A r \in Reqs :
        up[r].outcome = "StorageError" =>
            /\ Done(r)
            /\ up[r].status = 500
            /\ DocsOf(up[r].name) = {}

\* C4 witness: a write failed after part of the payload was written, while
\* another upload has stored its document.
C4_Witness ==
    \E r, q \in Reqs :
        /\ Done(r) /\ up[r].outcome = "StorageError"
        /\ Exists(up[r].name)
        /\ Len(files[up[r].name]) >= 1 /\ Len(files[up[r].name]) < up[r].total
        /\ up[q].outcome = "Created"

\* C5: two uploads never share a storage name, a stored file holds only
\* chunks of its own upload's payload, and once an upload has succeeded a
\* download of its name returns exactly its payload.
C5_DistinctNamesNoOverwrite ==
    \A r \in Reqs :
        NameAllocated(r) =>
            /\ \A q \in Reqs \ {r} : NameAllocated(q) => up[q].name # up[r].name
            /\ Exists(up[r].name) =>
                  /\ Len(files[up[r].name]) <= up[r].total
                  /\ \A i \in 1..Len(files[up[r].name]) : files[up[r].name][i] = r
            /\ up[r].outcome = "Created" =>
                  DownloadResult(up[r].name) =
                      [status |-> 200, body |-> Payload(r, up[r].total)]

\* C5 witness: two uploads that declared the same client file name have both
\* succeeded.
C5_Witness ==
    \E r, q \in Reqs :
        /\ r # q
        /\ up[r].filename = up[q].filename
        /\ up[r].outcome = "Created" /\ up[q].outcome = "Created"

\* C6: while an upload awaits its document insert, so that no document
\* references its blob yet, a download of the blob's name is not served.
C6_NoBlobServedBeforeDocument ==
    \A r \in Reqs :
        up[r].pc = "insert" /\ DocsOf(up[r].name) = {} =>
            DownloadResult(up[r].name).status = 404

\* C7: a list response holds at most limit documents, for every integer
\* limit (stated for the limits from 0 up: below 0 no response could comply).
ListOps == {"get_vlogs", "get_sentiments", "get_gps_coordinates"}
C7_AtMostLimitDocuments ==
    resp.op \in ListOps /\ resp.arg.limit >= 0 => Len(resp.body) <= resp.arg.limit

\* C8: when a list request carries a user_id filter, the empty string
\* included, every returned document has exactly that user_id; every
\* document of the collection is returned only without a filter.
C8_OwnerFilterExact ==
    resp.op \in ListOps /\ resp.arg.user_id # None =>
        /\ \A i \in 1..Len(resp.body) : resp.body[i].user_id = resp.arg.user_id[1]
        /\ (\E i \in 1..Len(CollectionOf(resp.op)) :
                CollectionOf(resp.op)[i].user_id # resp.arg.user_id[1])
              => Len(resp.body) < Len(CollectionOf(resp.op))

\* C9: create_sentiment answers 422 and leaves sentiments unchanged when the
\* intensity is outside [0, 1], stores the payload when the intensity is 0 or
\* 1, and no stored sentiment has an intensity outside [0, 1].
IntensityInside(v) == v.n >= IntensityGe * v.d /\ v.n <= IntensityLe * v.d
C9_IntensityBounds ==
    [][resp'.op = "create_sentiment" =>
        LET p == resp'.arg
        IN  /\ p.intensity # None /\ ~IntensityInside(p.intensity[1]) =>
                  resp'.status = 422 /\ sentiments' = sentiments
            /\ p.user_id # None /\ p.intensity \in {Some(Num(0)), Some(Num(1))} =>
                  /\ resp'.status = 201
                  /\ Len(sentiments') = Len(sentiments) + 1
                  /\ SubSeq(sentiments', 1, Len(sentiments)) = sentiments
                  /\ sentiments'[Len(sentiments')].user_id = p.user_id[1]
                  /\ sentiments'[Len(sentiments')].intensity = p.intensity[1]
            /\ \A i \in 1..Len(sentiments') :
                  IntensityInside(sentiments'[i].intensity)]_vars

\* C9 witness: a sentiment of intensity 1 and one of intensity 0 are stored
\* and a payload of intensity 1.1 has just been rejected.
C9_Witness ==
    /\ \E i \in 1..Len(sentiments) : sentiments[i].intensity = Num(1)
    /\ \E i \in 1..Len(sentiments) : sentiments[i].intensity = Num(0)
    /\ resp.op = "create_sentiment" /\ resp.status = 422
    /\ resp.arg.user_id # None
    /\ resp.arg.intensity = Some(Rat(11, 10))

\* C10: create_gps_coordinate answers 422 and leaves gps_coordinates
\* unchanged when the latitude is outside [-90, 90] or the longitude outside
\* [-180, 180], and stores a payload whose latitude is -90 or 90 and whose
\* longitude is -180 or 180.
LatitudeInside(v) == v.n >= LatitudeGe * v.d /\ v.n <= LatitudeLe * v.d
LongitudeInside(v) == v.n >= LongitudeGe * v.d /\ v.n <= LongitudeLe * v.d
C10_CoordinateBounds ==
    [][resp'.op = "create_gps_coordinate" =>
        LET p == resp'.arg
        IN  /\ ((p.latitude # None /\ ~LatitudeInside(p.latitude[1]))
                 \/ (p.longitude # None /\ ~LongitudeInside(p.longitude[1]))) =>
                  resp'.status = 422 /\ gps_coordinates' = gps_coordinates
            /\ (/\ p.user_id # None
                /\ p.latitude \in {Some(Num(-90)), Some(Num(90))}
                /\ p.longitude \in {Some(Num(-180)), Some(Num(180))}) =>
                  /\ resp'.status = 201
                  /\ Len(gps_coordinates') = Len(gps_coordinates) + 1
                  /\ SubSeq(gps_coordinates', 1, Len(gps_coordinates)) = gps_coordinates
                  /\ gps_coordinates'[Len(gps_coordinates')].latitude = p.latitude[1]
                  /\ gps_coordinates'[Len(gps_coordinates')].longitude = p.longitude[1]
            /\ \A i \in 1..Len(gps_coordinates') :
                  /\ LatitudeInside(gps_coordinates'[i].latitude)
                  /\ LongitudeInside(gps_coordinates'[i].longitude)]_vars

\* C10 witness: coordinates at both lower bounds and at both upper bounds
\* are stored and a payload of longitude 181 has just been rejected.
C10_Witness ==
    /\ \E i \in 1..Len(gps_coordinates) :
          /\ gps_coordinates[i].latitude = Num(-90)
          /\ gps_coordinates[i].longitude = Num(-180)
    /\ \E i \in 1..Len(gps_coordinates) :
          /\ gps_coordinates[i].latitude = Num(90)
          /\ gps_coordinates[i].longitude = Num(180)
    /\ resp.op = "create_gps_coordinate" /\ resp.status = 422
    /\ resp.arg.user_id # None
    /\ resp.arg.latitude = Some(Num(90))
    /\ resp.arg.longitude = Some(Num(181))

\* C11: an upload whose file name has an extension outside the allowed set
\* is answered 400 without a name being drawn, a file written or a document
\* stored, and never writes later; a name in upper case, A.MP4, is accepted
\* and stored under the lower-case extension.
TxtName == <<"a", ".", "t", "x", "t">>
Mp4Names == {<<"a", ".", "m", "p", "4">>, <<"A", ".", "M", "P", "4">>}
Arrives(r) == up[r].pc = "idle" /\ up'[r].pc # "idle"
C11_UnsupportedExtensionRejected ==
    [][\A r \in Reqs :
        /\ (Arrives(r) /\ up'[r].user_id # None /\ up'[r].filename = TxtName) =>
              /\ up'[r].pc = "done" /\ up'[r].status = 400
              /\ up'[r].outcome = "UnsupportedMediaType"
              /\ up'[r].name = <<>>
              /\ files' = files /\ vlogs' = vlogs /\ nextUuid' = nextUuid
        /\ (Arrives(r) /\ up'[r].user_id # None /\ up'[r].filename \in Mp4Names) =>
              /\ up'[r].pc = "open"
              /\ SubSeq(up'[r].name, Len(up'[r].name) - 3, Len(up'[r].name))
                    = <<".", "m", "p", "4">>
        /\ up[r].outcome = "UnsupportedMediaType" =>
              up'[r] = up[r] /\ DOMAIN files' \cap {up[r].filename} = {}]_vars

\* C11 witness: A.MP4 has been uploaded and stored while a.txt was rejected.
C11_Witness ==
    \E r, q \in Reqs :
        /\ up[r].filename = <<"A", ".", "M", "P", "4">> /\ up[r].outcome = "Created"
        /\ up[q].filename = TxtName /\ up[q].outcome = "UnsupportedMediaType"

\* C13: within one upload the blob write begins only with the extension
\* accepted and the name drawn, and the document insert begins only when the
\* whole payload is in the file; a document is stored only by an upload that
\* is at its insert.
C13_AllocateThenWriteThenInsert ==
    [][/\ \A r \in Reqs :
            /\ (up'[r].pc = "copy" /\ up[r].pc # "copy") =>
                  /\ up[r].pc = "open"
                  /\ up[r].name # <<>>
                  /\ up[r].filename \in Mp4Names
            /\ (up'[r].pc = "insert" /\ up[r].pc # "insert") =>
                  /\ up[r].pc = "copy"
                  /\ Exists(up[r].name)
                  /\ files[up[r].name] = Payload(r, up[r].total)
            /\ (up'[r].outcome = "Created" /\ up[r].outcome # "Created") =>
                  /\ up[r].pc = "insert"
                  /\ files[up[r].name] = Payload(r, up[r].total)
       /\ files' # files =>
            \E r \in Reqs : up[r].pc \in {"open", "copy"} /\ up[r].name # <<>>
       /\ vlogs' # vlogs =>
            \E r \in Reqs : up[r].pc = "insert" /\ up'[r].outcome = "Created"]_vars

\* C13 witness: an upload of the longest payload has stored its document.
C13_Witness ==
    \E r \in Reqs :
        /\ up[r].outcome = "Created" /\ up[r].total = MaxChunks
        /\ DocsOf(up[r].name) # {}

\* C15: after a successful upload the response and the one stored document
\* of its id carry the same video_url and download_url, both naming the
\* allocated name; file_size is the size of the stored blob,
\* original_filename the client's name, the timestamp the clock's reading
\* (to the millisecond), and a download of the name returns the blob.
C15_DocumentAndResponseAgree ==
    \A r \in Reqs :
        up[r].outcome = "Created" =>
            LET b == up[r].body[1]
                hits == {i \in 1..Len(vlogs) : vlogs[i]._id = b.id}
            IN  /\ Cardinality(hits) = 1
                /\ \A i \in hits :
                      /\ vlogs[i].video_url = b.video_url
                      /\ vlogs[i].download_url = b.download_url
                      /\ b.video_url[2] = up[r].name
                      /\ b.download_url[2] = up[r].name
                      /\ b.video_url[1] = "/uploads/videos/"
                      /\ b.download_url[1] = "/api/vlogs/download/"
                      /\ vlogs[i].file_size = b.file_size
                      /\ vlogs[i].original_filename = up[r].filename
                      /\ vlogs[i].timestamp <= up[r].timestamp
                      /\ up[r].timestamp - vlogs[i].timestamp < 1000
                      /\ Exists(b.download_url[2])
                      /\ b.file_size = Len(files[b.download_url[2]])
                      /\ DownloadResult(b.download_url[2]) =
                            [status |-> 200, body |-> Payload(r, up[r].total)]

\* C15 witness: two uploads have succeeded, one of them of the longest
\* payload.
C15_Witness ==
    \E r, q \in Reqs :
        /\ r # q
        /\ up[r].outcome = "Created" /\ up[q].outcome = "Created"
        /\ up[r].total = MaxChunks

\* C16: an upload without user_id is answered 422 as it arrives, without a
\* name being drawn, a file written or a document stored, and does nothing
\* afterwards.
C16_MissingOwnerRejectedBeforeDiskIO ==
    [][\A r \in Reqs :
        /\ (Arrives(r) /\ up'[r].user_id = None) =>
              /\ up'[r].pc = "done" /\ up'[r].status = 422
              /\ up'[r].outcome = "ValidationError"
              /\ up'[r].name = <<>>
              /\ files' = files /\ vlogs' = vlogs /\ nextUuid' = nextUuid
        /\ (up[r].pc # "idle" /\ up[r].user_id = None) => up'[r] = up[r]]_vars

\* C16 witness: an upload without user_id was rejected while another
\* upload's file is in the directory.
C16_Witness ==
    \E r \in Reqs :
        /\ up[r].pc = "done" /\ up[r].user_id = None
        /\ up[r].outcome = "ValidationError"
        /\ DOMAIN files # {}

\* C19: a download of a name with no file in the videos directory answers
\* 404 with no body; a download answered 200 carries the file's content; a
\* download changes no file and no collection.
C19_DownloadOfMissingFile ==
    [][(resp' # resp /\ resp'.op = "download_vlog_video") =>
        /\ resp'.arg \notin DOMAIN files => resp'.status = 404 /\ resp'.body = <<>>
        /\ resp'.status = 200 =>
              resp'.arg \in DOMAIN files /\ resp'.body = files[resp'.arg]
        /\ resp'.status \in {200, 404}
        /\ UNCHANGED <<files, vlogs, sentiments, gps_coordinates>>]_vars

\* C19 witness: a download was answered 404 while the directory holds a file.
C19_Witness ==
    /\ resp.op = "download_vlog_video" /\ resp.status = 404
    /\ resp.arg \notin DOMAIN files
    /\ DOMAIN files # {}

\* C12: a record created through a create endpoint is retrievable at once
\* by the returned id, every submitted field has the submitted value, a
\* timestamp that was sent is the one returned and one is assigned when none
\* was sent.
CreateOps == {"create_vlog", "create_sentiment", "create_gps_coordinate"}
StoredBy(op) ==
    CASE op = "create_vlog" -> vlogs
      [] op = "create_sentiment" -> sentiments
      [] op = "create_gps_coordinate" -> gps_coordinates
RequiredFields == {"user_id", "video_url", "emotion", "intensity", "latitude", "longitude"}
Submitted(p, f) == IF f \in RequiredFields THEN p[f][1] ELSE p[f]
C12_RoundTrip ==
    (resp.op \in CreateOps /\ resp.status = 201) =>
        LET g == GetById(StoredBy(resp.op), resp.body[1])
            p == resp.arg
        IN  /\ g.status = 200
            /\ g.body[1]._id = resp.body[1]
            /\ \A f \in DOMAIN p \ {"timestamp"} : g.body[1][f] = Submitted(p, f)
            /\ p.timestamp # None => g.body[1].timestamp = p.timestamp[1]
            /\ p.timestamp = None => g.body[1].timestamp \in Nat

\* C17: no vlog document with a duration below 0 is stored.
C17_NoNegativeDurationStored ==
    \A i \in 1..Len(vlogs) :
        ("duration" \in DOMAIN vlogs[i] /\ vlogs[i].duration # None) =>
            RatLe(Num(0), vlogs[i].duration[1])

\* C20: every vlog document that carries a download_url names a file that
\* is in the videos directory.
C20_NoDanglingReference ==
    \A i \in 1..Len(vlogs) :
        "download_url" \in DOMAIN vlogs[i] => Exists(vlogs[i].download_url[2])

\* C14: a step of the public API only appends: each collection keeps its
\* documents, with their ids and fields, at their places and gets at most
\* longer; a file of the videos directory stays, and what was written to it
\* stays as written.
Extends(old, new) == Len(new) >= Len(old) /\ SubSeq(new, 1, Len(old)) = old
C14_AppendOnly ==
    [][/\ Extends(vlogs, vlogs')
       /\ Extends(sentiments, sentiments')
       /\ Extends(gps_coordinates, gps_coordinates')
       /\ \A n \in DOMAIN files :
            /\ n \in DOMAIN files'
            /\ Extends(files[n], files'[n])]_vars

\* C14 witness: an upload has stored its blob and its document and a create
\* request another document.
C14_Witness ==
    \E r \in Reqs :
        /\ up[r].outcome = "Created"
        /\ files[up[r].name] = Payload(r, MaxChunks)
        /\ Len(vlogs) + Len(sentiments) + Len(gps_coordinates) = MaxDocs

\* C18: a step changes at most one collection, a step of an upload none but
\* vlogs; the documents a list or get-by-id request returns are documents of
\* its own collection and of no other.
IdsOf(coll) == {OidStr(coll[i]._id) : i \in 1..Len(coll)}
Others(op) ==
    CASE op \in {"get_vlog", "get_vlogs"} -> IdsOf(sentiments) \cup IdsOf(gps_coordinates)
      [] op \in {"get_sentiment", "get_sentiments"} -> IdsOf(vlogs) \cup IdsOf(gps_coordinates)
      [] op \in {"get_gps_coordinate", "get_gps_coordinates"} -> IdsOf(vlogs) \cup IdsOf(sentiments)
C18_CollectionsIndependent ==
    [][/\ vlogs' # vlogs => UNCHANGED <<sentiments, gps_coordinates>>
       /\ sentiments' # sentiments => UNCHANGED <<vlogs, gps_coordinates>>
       /\ gps_coordinates' # gps_coordinates => UNCHANGED <<vlogs, sentiments>>
       /\ up' # up => UNCHANGED <<sentiments, gps_coordinates>>
       /\ (resp' # resp /\ resp'.op = "create_vlog") => UNCHANGED <<sentiments, gps_coordinates>>
       /\ (resp' # resp /\ resp'.op = "create_sentiment") => UNCHANGED <<vlogs, gps_coordinates>>
       /\ (resp' # resp /\ resp'.op = "create_gps_coordinate") => UNCHANGED <<vlogs, sentiments>>
       /\ (resp' # resp /\ resp'.op \in ListOps \cup GetByIdOps) =>
            \A i \in 1..Len(resp'.body) :
                /\ resp'.body[i]._id \in IdsOf(CollectionOf(resp'.op))
                /\ resp'.body[i]._id \notin Others(resp'.op)]_vars

\* C18 witness: a vlog was asked for by the id of a stored sentiment and
\* no document was returned, with a vlog stored.
C18_Witness ==
    /\ resp.op = "get_vlog" /\ resp.status # 200 /\ resp.body = <<>>
    /\ resp.arg \in IdsOf(sentiments)
    /\ Len(vlogs) = 1

\* C21: when clear_existing_data has returned, having run with no request
\* in progress, the three collections are empty and the blob of no
\* successful upload is in the videos directory.
C21_ClearLeavesNothing ==
    seed.pc = "done" =>
        /\ vlogs = <<>> /\ sentiments = <<>> /\ gps_coordinates = <<>>
        /\ \A r \in Reqs : up[r].outcome = "Created" => ~Exists(up[r].name)

\* C22: each of the three lists of an export is the whole collection as it
\* is when the handler reads it, with no limit, so it holds every document
\* that is in the collection throughout the call; a list that was read is
\* not changed afterwards; in the response each total is the length of its
\* list in that response.
C22_ExportTotalsAndLists ==
    [][/\ (export.pc = "vlogs" /\ export'.pc # "vlogs") =>
            /\ Len(export'.vlogs) = Len(vlogs)
            /\ \A i \in 1..Len(vlogs) : export'.vlogs[i]._id = OidStr(vlogs[i]._id)
       /\ (export.pc = "sentiments" /\ export'.pc # "sentiments") =>
            /\ Len(export'.sentiments) = Len(sentiments)
            /\ \A i \in 1..Len(sentiments) :
                  export'.sentiments[i]._id = OidStr(sentiments[i]._id)
       /\ (export.pc = "gps_coordinates" /\ export'.pc # "gps_coordinates") =>
            /\ Len(export'.gps_coords) = Len(gps_coordinates)
            /\ \A i \in 1..Len(gps_coordinates) :
                  export'.gps_coords[i]._id = OidStr(gps_coordinates[i]._id)
       /\ export.pc \notin {"idle", "vlogs"} => export'.vlogs = export.vlogs
       /\ export.pc \in {"return", "done"} =>
            export'.sentiments = export.sentiments /\ export'.gps_coords = export.gps_coords
       /\ export'.pc = "done" =>
            LET b == export'.body[1]
            IN  /\ b.data.vlogs = export'.vlogs
                /\ b.data.sentiments = export'.sentiments
                /\ b.data.gps_coordinates = export'.gps_coords
                /\ b.total_vlogs = Len(b.data.vlogs)
                /\ b.total_sentiments = Len(b.data.sentiments)
                /\ b.total_gps_coordinates = Len(b.data.gps_coordinates)]_vars

\* C22 witness: an export has answered with the one vlog that was stored
\* before it, while a second vlog was created during the call.
C22_Witness ==
    /\ export.pc = "done"
    /\ export.body[1].total_vlogs = 1
    /\ export.body[1].data.vlogs[1]._id = OidStr(vlogs[1]._id)
    /\ Len(vlogs) = 2

\* C23: a health check answers 200 with status healthy when the ping
\* returns and 503 with status unhealthy when the ping raises, never another
\* status, and leaves the collections and the videos directory as they are.
C23_HealthNeverPropagates ==
    [][(resp' # resp /\ resp'.op = "health_check") =>
        /\ resp'.arg = "ok" =>
              resp'.status = 200 /\ resp'.body[1].status = "healthy"
        /\ resp'.arg = "raises" =>
              resp'.status = 503 /\ resp'.body[1].status = "unhealthy"
        /\ resp'.status \in {200, 503}
        /\ UNCHANGED <<vlogs, sentiments, gps_coordinates, files>>]_vars

\* C23 witness: the ping raised and the check answered 503 unhealthy, with a
\* document stored and a file in the directory.
C23_Witness ==
    /\ resp.op = "health_check" /\ resp.arg = "raises"
    /\ resp.status = 503 /\ resp.body[1].status = "unhealthy"
    /\ Len(vlogs) + Len(sentiments) + Len(gps_coordinates) > 0
    /\ DOMAIN files # {}

====
